---- MODULE Spec2Model ----
(***************************************************************************)
(* Model of ra_aid/tools/shell.py: the run_shell_command tool (command     *)
(* gate, supervised execution, result construction) and the log-preview    *)
(* truncator _truncate_for_log.                                            *)
(*                                                                         *)
(* run_interactive_command (ra_aid/proc/interactive.py) and                *)
(* truncate_output (ra_aid/text/processing.py) are not part of the source  *)
(* excerpt; they are modelled from the written specification (sections     *)
(* 4.2 and 4.3) and from the docstring of run_shell_command.               *)
(***************************************************************************)
EXTENDS Integers, Sequences, FiniteSets, TLC

(***************************************************************************)
(* Bounds of the model.                                                    *)
(***************************************************************************)
\* largest expected_runtime_seconds tried (seconds are the unit of a tick)
MaxT == 2
\* longest raw output (in bytes) a child process produces
MaxOut == 2
\* longest text handed to _truncate_for_log in the pure-function runs
MaxLen == 3
\* largest max_length handed to _truncate_for_log in the pure-function runs
MaxLimit == 3

(***************************************************************************)
(* Program constants.                                                      *)
(***************************************************************************)
\* default of the max_length parameter of _truncate_for_log
DefaultMaxLength == 300

VARIABLES
    global_memory,             \* the _global_memory dict (only the "config" entry matters)
    pc,                        \* position of the current call of run_shell_command
    command,                   \* argument of the current call
    expected_runtime_seconds,  \* argument of the current call
    cowboy_mode,               \* the local read at line 47
    response,                  \* what Prompt.ask returned in this call ("none": not asked / not answered)
    prompts,                   \* number of times Prompt.ask was called in this call
    spawns,                    \* number of times run_interactive_command was called in this call
    sup,                       \* state of the Process Supervisor
    budget,                    \* the expected_runtime_seconds the supervisor was called with
    elapsed,                   \* seconds since the child was spawned
    termAt,                    \* elapsed time at which the graceful signal was sent, -1 if not sent
    killAt,                    \* elapsed time at which the forceful kill was sent, -1 if not sent
    exitAt,                    \* elapsed time at which the child exited, -1 if it has not
    exit_status,               \* exit status of the child once it exited
    sup_return,                \* what run_interactive_command returned: <<output bytes, return_code>>
    sup_exception,             \* message of the exception run_interactive_command raised, "" if none
    result,                    \* the dict returned by run_shell_command
    raised,                    \* exception that escaped run_shell_command, "" if none
    work_log,                  \* log_work_event calls made in this call
    error_panels,              \* error Panels printed on the console in this call
    promoted,                  \* history: some earlier call of the session was answered "c"
    text,                      \* pure-function runs: argument of _truncate_for_log
    max_length,                \* pure-function runs: argument of _truncate_for_log
    truncated,                 \* pure-function runs: results, one per application
    applications               \* pure-function runs: applications made so far

shellVars == <<global_memory, pc, command, expected_runtime_seconds, cowboy_mode,
               response, prompts, spawns, result, raised, work_log, error_panels,
               promoted>>
supVars == <<sup, budget, elapsed, termAt, killAt, exitAt, exit_status, sup_return,
             sup_exception>>
truncVars == <<text, max_length, truncated, applications>>
vars == <<shellVars, supVars, truncVars>>

(***************************************************************************)
(* Python dicts: functions whose domain is the set of keys present.        *)
(***************************************************************************)
EmptyDict == [k \in {} |-> FALSE]

\* d.get(k, default)
Get(d, k, default) == IF k \in DOMAIN d THEN d[k] ELSE default

\* d[k] = v
SetItem(d, k, v) == [x \in (DOMAIN d) \cup {k} |-> IF x = k THEN v ELSE d[x]]

(***************************************************************************)
(* Text helpers.                                                           *)
(***************************************************************************)
\* s * n, by halving (the recursion is log n deep)
RECURSIVE Repeat(_, _)
Repeat(s, n) ==
    IF n = 0 THEN ""
    ELSE LET half == Repeat(s, n \div 2)
         IN  half \o half \o (IF n % 2 = 1 THEN s ELSE "")

\* text[:n]
Prefix(s, n) == SubSeq(s, 1, IF n < Len(s) THEN n ELSE Len(s))

RECURSIVE Texts(_, _)
Texts(alphabet, n) ==
    IF n = 0 THEN {""}
    ELSE LET shorter == Texts(alphabet, n - 1)
         IN  shorter \cup {s \o c : s \in shorter, c \in alphabet}

RECURSIVE ByteStrings(_, _)
ByteStrings(alphabet, n) ==
    IF n = 0 THEN {<<>>}
    ELSE LET shorter == ByteStrings(alphabet, n - 1)
         IN  shorter \cup {Append(s, b) : s \in shorter, b \in alphabet}

(***************************************************************************)
(* _truncate_for_log                                                       *)
(***************************************************************************)
TruncationMarker == "... [truncated]"

truncate_for_log_keeps_tail(t, n) ==
    IF Len(t) <= n THEN t ELSE SubSeq(t, Len(t) - n + 1, Len(t)) \o TruncationMarker

truncate_for_log_no_marker(t, n) ==
    IF Len(t) <= n THEN t ELSE Prefix(t, n)

truncate_for_log(t, n) ==
    IF Len(t) <= n THEN t ELSE Prefix(t, n) \o TruncationMarker

(***************************************************************************)
(* bytes.decode(): strict UTF-8 decoding of the child's output.  The byte  *)
(* alphabet of the model holds an ASCII letter, a two-byte lead (0xc3) and *)
(* a byte that starts no sequence (0xff); it holds no continuation byte,   *)
(* so a lead byte is never completed.  The message is str(e) of the        *)
(* UnicodeDecodeError Python raises.                                       *)
(***************************************************************************)
ByteAlphabet == {104, 195, 255}

RawOutputs == ByteStrings(ByteAlphabet, MaxOut)

HexDigit(n) == SubSeq("0123456789abcdef", n + 1, n + 1)

Hex(b) == "0x" \o HexDigit(b \div 16) \o HexDigit(b % 16)

\* chr(b) for the lowercase ASCII letters
Chr(b) == SubSeq("abcdefghijklmnopqrstuvwxyz", b - 96, b - 96)

DecodeError(b, pos, why) ==
    [ok |-> FALSE,
     value |-> "'utf-8' codec can't decode byte " \o Hex(b) \o " in position "
               \o ToString(pos) \o ": " \o why]

RECURSIVE DecodeFrom(_, _, _)
DecodeFrom(bytes, i, acc) ==
    IF i > Len(bytes) THEN [ok |-> TRUE, value |-> acc]
    ELSE IF bytes[i] < 128 THEN DecodeFrom(bytes, i + 1, acc \o Chr(bytes[i]))
    ELSE IF bytes[i] \in 194..223
         THEN IF i = Len(bytes)
              THEN DecodeError(bytes[i], i - 1, "unexpected end of data")
              ELSE DecodeError(bytes[i], i - 1, "invalid continuation byte")
    ELSE DecodeError(bytes[i], i - 1, "invalid start byte")

Decode(bytes) == DecodeFrom(bytes, 1, "")

(***************************************************************************)
(* truncate_output: the cap on the command's primary output.  Modelled     *)
(* from the contract of the Output Truncator with a limit scaled down to   *)
(* the outputs of the model.                                               *)
(***************************************************************************)
OutputLimit == 1

truncate_output(t) ==
    IF Len(t) <= OutputLimit THEN t ELSE Prefix(t, OutputLimit) \o TruncationMarker

(***************************************************************************)
(* The dicts run_shell_command returns.                                    *)
(***************************************************************************)
NoResult == [none |-> TRUE]

\* lines 69-73
CancelledResult ==
    [output |-> "Command execution cancelled by user", return_code |-> 1,
     success |-> FALSE]

SuccessResultAlways(output, return_code) ==
    [output |-> IF output # <<>> THEN truncate_output(Decode(output).value) ELSE "",
     return_code |-> return_code,
     success |-> TRUE]

\* lines 84-88, evaluated when output.decode() does not raise
SuccessResult(output, return_code) ==
    [output |-> IF output # <<>> THEN truncate_output(Decode(output).value) ELSE "",
     return_code |-> return_code,
     success |-> (return_code = 0)]

\* line 94
ErrorResult(e) == [output |-> e, return_code |-> 1, success |-> FALSE]

\* line 89
WorkLogEntry(cmd) ==
    "Executed shell command: " \o truncate_for_log(cmd, DefaultMaxLength)

(***************************************************************************)
(* The session configuration.                                              *)
(***************************************************************************)
\* line 47
ReadCowboyMode(mem) == Get(Get(mem, "config", EmptyDict), "cowboy_mode", FALSE)

\* line 75; _global_memory["config"] raises KeyError when the entry is absent
CanEnableCowboyMode(mem) == "config" \in DOMAIN mem

EnableCowboyModeOnCopy(mem) == mem

EnableCowboyMode(mem) ==
    [mem EXCEPT !["config"] = SetItem(@, "cowboy_mode", TRUE)]

DisableCowboyMode(mem) ==
    IF "config" \in DOMAIN mem
    THEN [mem EXCEPT !["config"] = SetItem(@, "cowboy_mode", FALSE)]
    ELSE mem

(***************************************************************************)
(* Inputs of a call.                                                       *)
(***************************************************************************)
LongCommand == Repeat("a", DefaultMaxLength + 1)

Commands == {"ls", LongCommand}

Runtimes == 1..MaxT

Responses == {"y", "n", "c"}

\* exit statuses of a child that exits on its own
ExitCodes == {0, 1}

\* exit statuses reported for a child ended by a signal (128 + signal number)
TermStatus == 143
KillStatus == 137

SpawnErrorMessage == "[Errno 2] No such file or directory: '/bin/bash'"
ExecutionErrorMessage == "[Errno 5] Input/output error"

ConfigsAtStart == {EmptyDict, [cowboy_mode |-> FALSE]}

MemoriesAtStart == {EmptyDict} \cup {[config |-> c] : c \in ConfigsAtStart}

(***************************************************************************)
(* Initial state: a session in which no call has been made.                *)
(***************************************************************************)
InitShell ==
    /\ pc = "idle"
    /\ command = ""
    /\ expected_runtime_seconds = 1
    /\ cowboy_mode = FALSE
    /\ response = "none"
    /\ prompts = 0
    /\ spawns = 0
    /\ result = NoResult
    /\ raised = ""
    /\ work_log = <<>>
    /\ error_panels = <<>>
    /\ promoted = FALSE

InitSup ==
    /\ sup = "none"
    /\ budget = 0
    /\ elapsed = 0
    /\ termAt = -1
    /\ killAt = -1
    /\ exitAt = -1
    /\ exit_status = 0
    /\ sup_return = <<>>
    /\ sup_exception = ""

NoTrunc ==
    /\ text = ""
    /\ max_length = 0
    /\ truncated = <<>>
    /\ applications = 0

Init ==
    /\ global_memory \in MemoriesAtStart
    /\ InitShell
    /\ InitSup
    /\ NoTrunc

(***************************************************************************)
(* run_shell_command, lines 46-78: the Command Gate.                       *)
(***************************************************************************)
CallSkipsPrompt(cmd, T) ==
    /\ pc = "idle"
    /\ command' = cmd
    /\ expected_runtime_seconds' = T
    /\ cowboy_mode' = ReadCowboyMode(global_memory)
    /\ pc' = "try"
    /\ prompts' = 0
    /\ response' = "none"
    /\ spawns' = 0
    /\ result' = NoResult
    /\ raised' = ""
    /\ work_log' = <<>>
    /\ error_panels' = <<>>
    /\ sup' = "none"
    /\ budget' = 0
    /\ elapsed' = 0
    /\ termAt' = -1
    /\ killAt' = -1
    /\ exitAt' = -1
    /\ exit_status' = 0
    /\ sup_return' = <<>>
    /\ sup_exception' = ""
    /\ UNCHANGED <<global_memory, promoted>>
    /\ UNCHANGED truncVars

\* lines 46-65: read the flag, show the command, ask unless in cowboy mode
Call(cmd, T) ==
    /\ pc = "idle"
    /\ command' = cmd
    /\ expected_runtime_seconds' = T
    /\ cowboy_mode' = ReadCowboyMode(global_memory)
    /\ IF ReadCowboyMode(global_memory)
       THEN pc' = "try" /\ prompts' = 0
       ELSE pc' = "prompt" /\ prompts' = 1
    /\ response' = "none"
    /\ spawns' = 0
    /\ result' = NoResult
    /\ raised' = ""
    /\ work_log' = <<>>
    /\ error_panels' = <<>>
    /\ sup' = "none"
    /\ budget' = 0
    /\ elapsed' = 0
    /\ termAt' = -1
    /\ killAt' = -1
    /\ exitAt' = -1
    /\ exit_status' = 0
    /\ sup_return' = <<>>
    /\ sup_exception' = ""
    /\ UNCHANGED <<global_memory, promoted>>
    /\ UNCHANGED truncVars

AnswerYesPromotes ==
    /\ pc = "prompt"
    /\ response' = "y"
    /\ pc' = "try"
    /\ global_memory' = IF CanEnableCowboyMode(global_memory)
                        THEN EnableCowboyMode(global_memory)
                        ELSE global_memory
    /\ UNCHANGED <<command, expected_runtime_seconds, cowboy_mode,
                   prompts, spawns, result, raised, work_log, error_panels, promoted>>
    /\ UNCHANGED <<supVars, truncVars>>

\* response "y" (also the default): fall through to the try block
AnswerYes ==
    /\ pc = "prompt"
    /\ response' = "y"
    /\ pc' = "try"
    /\ UNCHANGED <<global_memory, command, expected_runtime_seconds, cowboy_mode,
                   prompts, spawns, result, raised, work_log, error_panels, promoted>>
    /\ UNCHANGED <<supVars, truncVars>>

AnswerNoSpawning ==
    /\ pc = "prompt"
    /\ response' = "n"
    /\ result' = CancelledResult
    /\ spawns' = spawns + 1
    /\ pc' = "returned"
    /\ UNCHANGED <<global_memory, command, expected_runtime_seconds, cowboy_mode,
                   prompts, raised, work_log, error_panels, promoted>>
    /\ UNCHANGED <<supVars, truncVars>>

\* lines 67-73: response "n"
AnswerNo ==
    /\ pc = "prompt"
    /\ response' = "n"
    /\ result' = CancelledResult
    /\ pc' = "returned"
    /\ UNCHANGED <<global_memory, command, expected_runtime_seconds, cowboy_mode,
                   prompts, spawns, raised, work_log, error_panels, promoted>>
    /\ UNCHANGED <<supVars, truncVars>>

\* lines 74-78: response "c"; the subscript _global_memory["config"] raises
\* KeyError outside the try block when the session has no "config" entry
AnswerCowboy ==
    /\ pc = "prompt"
    /\ response' = "c"
    /\ IF CanEnableCowboyMode(global_memory)
       THEN /\ global_memory' = EnableCowboyMode(global_memory)
            /\ pc' = "try"
            /\ raised' = raised
       ELSE /\ global_memory' = global_memory
            /\ pc' = "raised"
            /\ raised' = "KeyError: 'config'"
    /\ UNCHANGED <<command, expected_runtime_seconds, cowboy_mode, prompts, spawns,
                   result, work_log, error_panels, promoted>>
    /\ UNCHANGED <<supVars, truncVars>>

(***************************************************************************)
(* run_shell_command, lines 91-94: the except clause.                      *)
(***************************************************************************)
HandleExceptionRollback(e) ==
    /\ error_panels' = Append(error_panels, e)
    /\ result' = ErrorResult(e)
    /\ pc' = "returned"
    /\ global_memory' = DisableCowboyMode(global_memory)
    /\ UNCHANGED <<command, expected_runtime_seconds, cowboy_mode, response,
                   prompts, raised, work_log, promoted>>

HandleExceptionReraise(e) ==
    /\ error_panels' = Append(error_panels, e)
    /\ raised' = e
    /\ pc' = "raised"
    /\ UNCHANGED <<global_memory, command, expected_runtime_seconds, cowboy_mode,
                   response, prompts, result, work_log, promoted>>

HandleException(e) ==
    /\ error_panels' = Append(error_panels, e)
    /\ result' = ErrorResult(e)
    /\ pc' = "returned"
    /\ UNCHANGED <<global_memory, command, expected_runtime_seconds, cowboy_mode,
                   response, prompts, raised, work_log, promoted>>

(***************************************************************************)
(* run_shell_command, line 82: the call of run_interactive_command.        *)
(* The Process Supervisor: spawn, wait with the thresholds 2T and 3T       *)
(* (T = expected_runtime_seconds), signal, reap.  One tick is one second.  *)
(***************************************************************************)
ChildRunning == exitAt = -1

TermThreshold == 2 * budget

KillThreshold == 3 * budget

InvokeSpawnsDefaultBudget ==
    /\ pc = "try"
    /\ spawns' = spawns + 1
    /\ pc' = "supervising"
    /\ sup' = "Running"
    /\ budget' = 1
    /\ elapsed' = 0
    /\ UNCHANGED <<termAt, killAt, exitAt, exit_status, sup_return, sup_exception>>
    /\ UNCHANGED <<global_memory, command, expected_runtime_seconds, cowboy_mode,
                   response, prompts, result, raised, work_log, error_panels, promoted>>
    /\ UNCHANGED truncVars

\* run_interactive_command(["/bin/bash", "-c", command],
\* expected_runtime_seconds=expected_runtime_seconds): the child is created
InvokeSpawns ==
    /\ pc = "try"
    /\ spawns' = spawns + 1
    /\ pc' = "supervising"
    /\ sup' = "Running"
    /\ budget' = expected_runtime_seconds
    /\ elapsed' = 0
    /\ UNCHANGED <<termAt, killAt, exitAt, exit_status, sup_return, sup_exception>>
    /\ UNCHANGED <<global_memory, command, expected_runtime_seconds, cowboy_mode,
                   response, prompts, result, raised, work_log, error_panels, promoted>>
    /\ UNCHANGED truncVars

\* the child process cannot be created: the supervisor raises, lines 91-94 run
InvokeFailsToSpawn ==
    /\ pc = "try"
    /\ spawns' = spawns + 1
    /\ sup' = "Failed"
    /\ budget' = expected_runtime_seconds
    /\ sup_exception' = SpawnErrorMessage
    /\ HandleException(SpawnErrorMessage)
    /\ UNCHANGED <<elapsed, termAt, killAt, exitAt, exit_status, sup_return>>
    /\ UNCHANGED truncVars

\* a second passes; the clock does not pass a threshold whose signal is due
Tick ==
    /\ pc = "supervising"
    /\ sup \in {"Running", "GraceRequested"}
    /\ ChildRunning
    /\ elapsed < KillThreshold
    /\ ~(sup = "Running" /\ elapsed = TermThreshold)
    /\ elapsed' = elapsed + 1
    /\ UNCHANGED <<sup, budget, termAt, killAt, exitAt, exit_status, sup_return,
                   sup_exception>>
    /\ UNCHANGED <<shellVars, truncVars>>

\* the child exits: on its own, or because of the graceful signal
ChildExits(status) ==
    /\ pc = "supervising"
    /\ sup \in {"Running", "GraceRequested"}
    /\ ChildRunning
    /\ status \in (IF sup = "GraceRequested" THEN ExitCodes \cup {TermStatus}
                   ELSE ExitCodes)
    /\ exitAt' = elapsed
    /\ exit_status' = status
    /\ UNCHANGED <<sup, budget, elapsed, termAt, killAt, sup_return, sup_exception>>
    /\ UNCHANGED <<shellVars, truncVars>>

\* at 2T the child has not exited: graceful termination signal
SendTerm ==
    /\ pc = "supervising"
    /\ sup = "Running"
    /\ ChildRunning
    /\ elapsed = TermThreshold
    /\ sup' = "GraceRequested"
    /\ termAt' = elapsed
    /\ UNCHANGED <<budget, elapsed, killAt, exitAt, exit_status, sup_return,
                   sup_exception>>
    /\ UNCHANGED <<shellVars, truncVars>>

\* at 3T the child still has not exited: forceful kill, which ends the child
SendKill ==
    /\ pc = "supervising"
    /\ sup = "GraceRequested"
    /\ ChildRunning
    /\ elapsed = KillThreshold
    /\ sup' = "ForceKilled"
    /\ killAt' = elapsed
    /\ exitAt' = elapsed
    /\ exit_status' = KillStatus
    /\ UNCHANGED <<budget, elapsed, termAt, sup_return, sup_exception>>
    /\ UNCHANGED <<shellVars, truncVars>>

\* the child has exited: collect its output and status, return to the caller
Reap(out) ==
    /\ pc = "supervising"
    /\ sup \in {"Running", "GraceRequested", "ForceKilled"}
    /\ ~ChildRunning
    /\ sup' = "Reaped"
    /\ sup_return' = <<out, exit_status>>
    /\ pc' = "supervised"
    /\ UNCHANGED <<budget, elapsed, termAt, killAt, exitAt, exit_status, sup_exception>>
    /\ UNCHANGED <<global_memory, command, expected_runtime_seconds, cowboy_mode,
                   response, prompts, spawns, result, raised, work_log, error_panels,
                   promoted>>
    /\ UNCHANGED truncVars

\* an operating-system fault while waiting: the supervisor raises, lines 91-94 run
SupervisorFault ==
    /\ pc = "supervising"
    /\ sup \in {"Running", "GraceRequested"}
    /\ sup' = "Failed"
    /\ sup_exception' = ExecutionErrorMessage
    /\ HandleException(ExecutionErrorMessage)
    /\ UNCHANGED <<budget, elapsed, termAt, killAt, exitAt, exit_status, sup_return>>
    /\ UNCHANGED <<spawns, truncVars>>

(***************************************************************************)
(* run_shell_command, lines 83-94: after the supervisor returned.          *)
(***************************************************************************)
Complete ==
    /\ pc = "supervised"
    /\ LET output == sup_return[1]
           return_code == sup_return[2]
       IN  IF output # <<>> /\ ~Decode(output).ok
           THEN HandleException(Decode(output).value)
           ELSE /\ result' = SuccessResult(output, return_code)
                /\ work_log' = Append(work_log, WorkLogEntry(command))
                /\ pc' = "returned"
                /\ UNCHANGED <<global_memory, command, expected_runtime_seconds,
                               cowboy_mode, response, prompts, raised, error_panels,
                               promoted>>
    /\ UNCHANGED <<spawns, supVars, truncVars>>

\* the call is over (a result was returned or an exception escaped); the
\* session goes on to its next command
Return ==
    /\ pc \in {"returned", "raised"}
    /\ pc' = "idle"
    /\ promoted' = (promoted \/ response = "c")
    /\ UNCHANGED <<global_memory, command, expected_runtime_seconds, cowboy_mode,
                   response, prompts, spawns, result, raised, work_log, error_panels>>
    /\ UNCHANGED <<supVars, truncVars>>

Next ==
    \/ \E cmd \in Commands, T \in Runtimes : Call(cmd, T)
    \/ AnswerYes
    \/ AnswerNo
    \/ AnswerCowboy
    \/ InvokeSpawns
    \/ InvokeFailsToSpawn
    \/ Tick
    \/ \E status \in ExitCodes \cup {TermStatus} : ChildExits(status)
    \/ SendTerm
    \/ SendKill
    \/ \E out \in RawOutputs : Reap(out)
    \/ SupervisorFault
    \/ Complete
    \/ Return

Spec == Init /\ [][Next]_vars

\* the scheduling of one call: the interpreter runs the next statement, the
\* clock advances and the supervisor's poll loop acts on what it sees; the
\* user (the prompt) and the child (its exit) are under no obligation
FairSpec ==
    /\ Spec
    /\ WF_vars(InvokeSpawns \/ InvokeFailsToSpawn)
    /\ WF_vars(Tick)
    /\ WF_vars(SendTerm)
    /\ WF_vars(SendKill)
    /\ WF_vars(\E out \in RawOutputs : Reap(out))
    /\ WF_vars(Complete)

(***************************************************************************)
(* Runs of the pure function _truncate_for_log on bounded inputs.          *)
(***************************************************************************)
TextAlphabet == {"a", "."}

InitTrunc ==
    /\ global_memory = EmptyDict
    /\ InitShell
    /\ InitSup
    /\ text \in Texts(TextAlphabet, MaxLen)
    /\ max_length \in 0..MaxLimit
    /\ truncated = <<>>
    /\ applications = 0

Truncate ==
    /\ applications = 0
    /\ truncated' = <<truncate_for_log(text, max_length)>>
    /\ applications' = 1
    /\ UNCHANGED <<text, max_length, shellVars, supVars>>

TruncateAgain ==
    /\ applications = 1
    /\ truncated' = Append(truncated, truncate_for_log(truncated[1], max_length))
    /\ applications' = 2
    /\ UNCHANGED <<text, max_length, shellVars, supVars>>

NextTrunc == Truncate \/ TruncateAgain

SpecTrunc == InitTrunc /\ [][NextTrunc]_vars

(***************************************************************************)
(* Properties.                                                             *)
(***************************************************************************)
Unattended == ReadCowboyMode(global_memory)

WellFormed(r) ==
    /\ DOMAIN r = {"output", "return_code", "success"}
    /\ r.return_code \in Int
    /\ r.success \in BOOLEAN

\* C1: a call that was answered "n" never invokes run_interactive_command
\* (its spawn count stays 0, the supervisor is never started) and returns
\* exactly {output: "Command execution cancelled by user", return_code: 1,
\* success: False}.
C1_DenyNeverSpawns ==
    response = "n" =>
        /\ ~cowboy_mode
        /\ spawns = 0
        /\ sup = "none"
        /\ pc \in {"returned", "idle"}
        /\ result = [output |-> "Command execution cancelled by user",
                     return_code |-> 1, success |-> FALSE]

C1_Witness == pc = "returned" /\ response = "n" /\ prompts = 1

\* C2: cowboy_mode is monotonic: no step of any call takes it from true to
\* false, whatever the answers and whatever the supervisor does.
C2_CowboyMonotonic ==
    [][ReadCowboyMode(global_memory) => ReadCowboyMode(global_memory')]_vars

C2_Witness ==
    /\ Unattended
    /\ cowboy_mode
    /\ pc = "returned"
    /\ sup_exception = ExecutionErrorMessage

\* C3 (as claimed): once a call was answered "c", cowboy_mode is true before
\* the next call begins, and every later call asks no confirmation and
\* reaches the supervisor.
C3_PromotionHolds ==
    promoted =>
        /\ Unattended
        /\ pc # "prompt"
        /\ pc # "idle" => prompts = 0
        /\ pc = "returned" => spawns = 1

\* C4: every result run_shell_command returns has success = (return_code = 0).
C4_SuccessIffZero ==
    result # NoResult => (result.success <=> (result.return_code = 0))

C4_Witness ==
    /\ pc = "returned"
    /\ result # NoResult
    /\ result.return_code = KillStatus
    /\ ~result.success

\* C5 (as claimed): no exception escapes run_shell_command, and a call that
\* is over has returned a well-formed {output, return_code, success}.
C5_NothingEscapes ==
    /\ pc # "raised"
    /\ raised = ""
    /\ pc = "returned" => WellFormed(result)

\* C6: with T the expected_runtime_seconds of the call: no signal while
\* elapsed < 2T; the graceful signal only at 2T and only to a child that has
\* not exited; the kill only at 3T, only to a child that has not exited and
\* only after the graceful signal; a child that exits before 2T gets no
\* signal; the supervisor's states follow Running -> GraceRequested ->
\* ForceKilled -> Reaped.
C6_EscalationState ==
    LET T == expected_runtime_seconds
    IN  /\ elapsed < 2 * T => (termAt = -1 /\ killAt = -1)
        /\ termAt # -1 => (termAt = 2 * T /\ (exitAt = -1 \/ exitAt >= termAt))
        /\ killAt # -1 => (killAt = 3 * T /\ termAt # -1 /\ exitAt = killAt)
        /\ (exitAt # -1 /\ exitAt < 2 * T) => (termAt = -1 /\ killAt = -1)
        /\ sup = "GraceRequested" => (termAt # -1 /\ killAt = -1)
        /\ sup = "ForceKilled" => killAt # -1

C6_EscalationStep ==
    /\ (sup' = "Running" /\ sup # "Running") => sup = "none"
    /\ (sup' = "GraceRequested" /\ sup # "GraceRequested") => sup = "Running"
    /\ (sup' = "ForceKilled" /\ sup # "ForceKilled") => sup = "GraceRequested"
    /\ (sup' = "Reaped" /\ sup # "Reaped") =>
           (sup \in {"Running", "GraceRequested", "ForceKilled"} /\ exitAt # -1)
    /\ termAt # -1 => termAt' \in {termAt, -1}
    /\ (termAt' # termAt /\ termAt' # -1) => (exitAt = -1 /\ elapsed = 2 * expected_runtime_seconds)
    /\ (killAt' # killAt /\ killAt' # -1) => (exitAt = -1 /\ elapsed = 3 * expected_runtime_seconds)

C6_Escalation == [](C6_EscalationState) /\ [][C6_EscalationStep]_vars

C6_Witness ==
    /\ sup = "ForceKilled"
    /\ expected_runtime_seconds = MaxT
    /\ termAt = 2 * MaxT
    /\ killAt = 3 * MaxT

\* the Command Gate let the command run: the session was unattended, or the
\* user answered "y" (Run) or "c" (RunAndPromoteSession)
Approved == cowboy_mode \/ response \in {"y", "c"}

\* C7 (as claimed): every approved command yields a returned result: an
\* approved call that is over has returned a result and raised nothing.
C7_ApprovedYieldsResult ==
    (Approved /\ pc \in {"returned", "raised"}) =>
        (pc = "returned" /\ result # NoResult /\ raised = "")

\* C8 (as claimed): when the child ran to completion with exit code rc and its
\* output does not decode, the result still carries return_code = rc and
\* success = (rc = 0), and its output is not the decoding error's message.
C8_UndecodableKeepsStatus ==
    (pc = "returned" /\ sup = "Reaped" /\ ~Decode(sup_return[1]).ok) =>
        /\ result.return_code = sup_return[2]
        /\ result.success = (sup_return[2] = 0)
        /\ result.output # Decode(sup_return[1]).value

\* C9: when run_interactive_command raised, the call shows the message in one
\* error panel, returns exactly {output: message, return_code: 1,
\* success: False} and lets no exception out.
C9_SupervisorExceptionCaught ==
    sup_exception # "" =>
        /\ pc \in {"returned", "idle"}
        /\ error_panels = <<sup_exception>>
        /\ result = [output |-> sup_exception, return_code |-> 1, success |-> FALSE]
        /\ raised = ""
        /\ work_log = <<>>

C9_Witness ==
    /\ pc = "returned"
    /\ sup_exception = SpawnErrorMessage
    /\ spawns = 1

\* C10: _truncate_for_log(text, max_length) is text when len(text) <=
\* max_length; otherwise it is text[:max_length] followed by
\* "... [truncated]", of length max_length + 15.
C10_TruncateContract ==
    applications >= 1 =>
        LET r == truncated[1]
        IN  IF Len(text) <= max_length
            THEN r = text
            ELSE /\ r = SubSeq(text, 1, max_length) \o "... [truncated]"
                 /\ Len(r) = max_length + Len("... [truncated]")
                 /\ SubSeq(r, 1, max_length) = SubSeq(text, 1, max_length)

C10_Witness ==
    /\ applications = 1
    /\ Len(text) = MaxLen
    /\ max_length = 1
    /\ Len(truncated[1]) = 16

\* the step that begins a call
CallBegins == pc = "idle" /\ pc' # "idle"

\* C11: a call asks for confirmation iff cowboy_mode is false when the call
\* reads it: with the flag true the call goes to the try block with no
\* prompt; with the flag false Prompt.ask is called exactly once, and no
\* process is spawned before it is answered.
C11_PromptState ==
    /\ pc # "idle" => prompts = (IF cowboy_mode THEN 0 ELSE 1)
    /\ pc = "prompt" => (~cowboy_mode /\ response = "none" /\ spawns = 0)
    /\ spawns > 0 => (cowboy_mode \/ response \in {"y", "c"})
    /\ (cowboy_mode /\ pc = "returned") => (response = "none" /\ spawns = 1)

C11_PromptStep ==
    /\ CallBegins =>
        /\ cowboy_mode' = Unattended
        /\ Unattended => (pc' = "try" /\ prompts' = 0)
        /\ ~Unattended => (pc' = "prompt" /\ prompts' = 1)
    /\ pc # "idle" => prompts' = prompts

C11_PromptIffAttended == [](C11_PromptState) /\ [][C11_PromptStep]_vars

C11_Witness ==
    /\ pc = "supervising"
    /\ cowboy_mode
    /\ Unattended
    /\ prompts = 0
    /\ response = "none"

\* C12: cowboy_mode (and the whole session configuration) changes only in
\* the step that answers "c" at the prompt; answers "y" and "n", calls made
\* in cowboy mode, the supervisor and the except clause leave it unchanged.
C12_OnlyAnswerCChanges ==
    [][global_memory' # global_memory =>
          (/\ pc = "prompt"
           /\ response' = "c"
           /\ ~Unattended
           /\ ReadCowboyMode(global_memory'))]_vars

C12_Witness ==
    /\ pc = "returned"
    /\ response = "y"
    /\ sup = "Reaped"
    /\ ~Unattended

\* C13 (as claimed): a call invokes run_interactive_command at most once;
\* when it is over it has invoked it exactly once if the decision was Run or
\* RunAndPromoteSession or the session was unattended, and not at all if the
\* decision was Deny.
C13_OneShot ==
    /\ spawns <= 1
    /\ pc \in {"returned", "raised"} =>
           spawns = (IF response = "n" THEN 0 ELSE 1)

\* C14 (as claimed): a call that is over has emitted exactly one work-log
\* entry if the supervisor returned normally, and none if the command was
\* denied or the supervisor raised; no entry exists before the supervisor
\* returned.
C14_LogOncePerNormalReturn ==
    /\ sup # "Reaped" => work_log = <<>>
    /\ pc = "returned" => Len(work_log) = (IF sup = "Reaped" THEN 1 ELSE 0)

\* C15: a promotion is written before the supervisor is invoked and stays:
\* in a call answered "c" that reached execution cowboy_mode is true from
\* the try block on, also after the supervisor raised or the child exited
\* non-zero, and the call that follows asks no confirmation.
C15_PromotionState ==
    (response = "c" /\ (pc \in {"try", "supervising", "supervised"} \/ spawns = 1))
        => Unattended

C15_PromotionStep ==
    (CallBegins /\ response = "c" /\ spawns = 1) => (pc' = "try" /\ prompts' = 0)

C15_PromotionSticks == [](C15_PromotionState) /\ [][C15_PromotionStep]_vars

C15_Witness ==
    /\ pc = "returned"
    /\ response = "c"
    /\ sup_exception = ExecutionErrorMessage
    /\ result.return_code = 1
    /\ Unattended

\* C16: _truncate_for_log applied to its own output with the same limit gives
\* that output again, also when the excess trimmed is shorter than the marker.
C16_TruncateIdempotent ==
    applications = 2 => truncated[2] = truncated[1]

C16_Witness ==
    /\ applications = 2
    /\ Len(text) = max_length + 1
    /\ Len(truncated[1]) > Len(text)
    /\ truncated[2] = truncated[1]

====
